---- MODULE Spec2Model ----
(***************************************************************************)
(* SecureSavedObjectsClient                                                *)
(* x-pack/plugins/security/server/lib/saved_objects_client/                *)
(*   secure_saved_objects_client.js                                        *)
(*                                                                         *)
(* Every public method (create, bulkCreate, delete, find, bulkGet, get,    *)
(* update) goes through _execute: derive the actions, await the privilege  *)
(* checker, branch on its result, audit, and delegate to the internal or   *)
(* the callWithRequest repository.  A call is a JavaScript async function: *)
(* it runs to completion between awaits, so each action below is the code  *)
(* between two awaits of one call.                                         *)
(***************************************************************************)
EXTENDS Integers, Sequences, FiniteSets, TLC

\* ------------------------------------------------------------------ bounds
NumCalls == 2
MaxObjects == 3

Calls == 1..NumCalls

\* ------------------------------------------------------- JavaScript values
Undefined == [t |-> "undefined"]
Null == [t |-> "null"]
Str(s) == [t |-> "string", s |-> s]
Arr(items) == [t |-> "array", items |-> items]
Obj(f) == [t |-> "object", f |-> f]
NoFields == [k \in {} |-> Undefined]

IsNullish(v) == v.t \in {"undefined", "null"}

\* v[key]: a property read; a missing property reads as undefined
Prop(v, key) ==
  IF v.t = "object" /\ key \in DOMAIN v.f THEN v.f[key] ELSE Undefined

\* thrown values
TypeError(what) == [t |-> "error", kind |-> "TypeError", message |-> what]

\* ------------------------------------------------------------ input domains
TypeNames == {"a", "b"}
Types == {Str(n) : n \in TypeNames}
Ids == {Str("id1")}
Usernames == {Str("alice")}

SavedObject(type, id) == Obj([type |-> type, id |-> id])
SavedObjects == {SavedObject(type, id) : type \in Types, id \in Ids}

SeqsUpTo(S, n) == UNION {[1..k -> S] : k \in 0..n}
ObjectLists == {Arr(s) : s \in SeqsUpTo(SavedObjects, MaxObjects)}

\* the values repositories resolve with or throw (opaque to the client)
RepositoryOutcomes ==
  {[kind |-> "return", value |-> Obj([saved |-> Str("r1")])],
   [kind |-> "return", value |-> Undefined],
   [kind |-> "throw", value |-> [t |-> "error", kind |-> "NotFound", message |-> "repository"]]}

\* ------------------------------------------------------------------- state
VARIABLES
  pc,         \* per call: "idle", "checking", "checked", "delegating", "done"
  action,     \* per call: the operation kind handed to _execute
  args,       \* per call: the argument bundle handed to _execute
  fn,         \* per call: the closure repository => repository.<method>(...)
  types,      \* per call: _execute's local `types`
  actions,    \* per call: _execute's local `actions`, as sent to the checker
  checked,    \* per call: what this._checkPrivileges(actions) settled with
  auditLog,   \* per call: the calls made on this._auditLogger, in order
  repoCalls,  \* per call: the repository methods invoked, in order
  trace,      \* per call: the collaborators invoked, in order
  delegated,  \* per call: what the invoked repository method settled with
  outcome     \* per call: what the public method returned or threw

vars == <<pc, action, args, fn, types, actions, checked, auditLog, repoCalls, trace, delegated, outcome>>

NoOutcome == [kind |-> "none", value |-> Undefined]
NoFn == [method |-> "none", arguments |-> <<>>]

Init ==
  /\ pc = [c \in Calls |-> "idle"]
  /\ action = [c \in Calls |-> "none"]
  /\ args = [c \in Calls |-> Undefined]
  /\ fn = [c \in Calls |-> NoFn]
  /\ types = [c \in Calls |-> Undefined]
  /\ actions = [c \in Calls |-> Undefined]
  /\ checked = [c \in Calls |-> NoOutcome]
  /\ auditLog = [c \in Calls |-> <<>>]
  /\ repoCalls = [c \in Calls |-> <<>>]
  /\ trace = [c \in Calls |-> <<>>]
  /\ delegated = [c \in Calls |-> NoOutcome]
  /\ outcome = [c \in Calls |-> NoOutcome]

\* ------------------------------------------------------------ collaborators
CHECK_PRIVILEGES_RESULT ==
  [AUTHORIZED |-> "authorized", LEGACY |-> "legacy", UNAUTHORIZED |-> "unauthorized"]

\* String(v) of a template literal
JsString(v) == IF v.t = "string" THEN v.s ELSE v.t

\* this._actions.getSavedObjectAction(type, action): the action registry
getSavedObjectAction(type, act) ==
  Str("action:saved_objects/" \o JsString(type) \o "/" \o act)

\* new Error(message), this.errors.decorateForbiddenError, decorateGeneralError
Error(message) == [t |-> "error", kind |-> "Error", message |-> message]
decorateForbiddenError(error) ==
  [t |-> "error", kind |-> "Forbidden", message |-> error.message]
decorateGeneralError(error, reason) ==
  [t |-> "error", kind |-> "DecoratedGeneral", cause |-> error, reason |-> reason]

\* the closure fn applied to a repository: the repository method it invokes
Invoke(f, repository) ==
  [repository |-> repository, method |-> f.method, arguments |-> f.arguments]

\* ----------------------------------------------------------------- lodash
\* baseGet: walk `path` from `object`, stopping at null or undefined
RECURSIVE baseGet(_, _, _)
baseGet(object, path, index) ==
  IF ~IsNullish(object) /\ index < Len(path)
    THEN baseGet(Prop(object, path[index + 1]), path, index + 1)
    ELSE IF index > 0 /\ index = Len(path) THEN object ELSE Undefined

\* get(object, path, defaultValue): the default stands in for undefined only
lodashGet(object, path, defaultValue) ==
  LET result == IF IsNullish(object) THEN Undefined ELSE baseGet(object, path, 0)
  IN IF result = Undefined THEN defaultValue ELSE result

\* uniq(array): the first occurrence of each value, in order
RECURSIVE uniqFrom(_, _)
uniqFrom(items, seen) ==
  IF items = <<>> THEN seen
  ELSE IF \E i \in 1..Len(seen) : seen[i] = Head(items)
    THEN uniqFrom(Tail(items), seen)
    ELSE uniqFrom(Tail(items), Append(seen, Head(items)))
\* mutant of uniq: distinct values, but in the reverse of first-occurrence order
uniqReversed(array) ==
  LET firsts == uniqFrom(array.items, <<>>)
  IN Arr([i \in 1..Len(firsts) |-> firsts[Len(firsts) + 1 - i]])
\* mutant of uniq: the types are not deduplicated
uniqMissing(array) == array
uniq(array) == Arr(uniqFrom(array.items, <<>>))

\* o => o.type
TypeOf(o) == Prop(o, "type")

\* objects.map(o => o.type)
mapTypes(objects) == Arr([i \in 1..Len(objects.items) |-> TypeOf(objects.items[i])])

\* types.map(type => this._actions.getSavedObjectAction(type, action))
mapActions(ts, act) ==
  Arr([i \in 1..Len(ts.items) |-> getSavedObjectAction(ts.items[i], act)])

\* ------------------------------------------------- strings, sort and join
\* UTF-16 code units of the names the model uses
NameUnits ==
  [a |-> <<97>>,
   b |-> <<98>>,
   undefined |-> <<117, 110, 100, 101, 102, 105, 110, 101, 100>>,
   create |-> <<99, 114, 101, 97, 116, 101>>,
   bulk_create |-> <<98, 117, 108, 107, 95, 99, 114, 101, 97, 116, 101>>,
   delete |-> <<100, 101, 108, 101, 116, 101>>,
   find |-> <<102, 105, 110, 100>>,
   bulk_get |-> <<98, 117, 108, 107, 95, 103, 101, 116>>,
   get |-> <<103, 101, 116>>,
   update |-> <<117, 112, 100, 97, 116, 101>>]
ActionPrefixUnits ==
  <<97, 99, 116, 105, 111, 110, 58, 115, 97, 118, 101, 100, 95, 111, 98, 106,
    101, 99, 116, 115, 47>>
OperationKinds ==
  {"create", "bulk_create", "delete", "find", "bulk_get", "get", "update"}

\* the code units of the action identifiers the registry can return
ActionUnits ==
  LET named == (TypeNames \cup {"undefined"}) \X OperationKinds
      identifier(q) == "action:saved_objects/" \o q[1] \o "/" \o q[2]
  IN [s \in {identifier(q) : q \in named} |->
        LET p == CHOOSE q \in named : s = identifier(q)
        IN ActionPrefixUnits \o NameUnits[p[1]] \o <<47>> \o NameUnits[p[2]]]

\* the code units of a string of the model: a name, or an action identifier
codeUnits(s) ==
  IF s \in DOMAIN NameUnits THEN NameUnits[s] ELSE ActionUnits[s]

\* x < y, code unit by code unit
RECURSIVE unitsLess(_, _)
unitsLess(x, y) ==
  IF y = <<>> THEN FALSE
  ELSE IF x = <<>> THEN TRUE
  ELSE IF Head(x) # Head(y) THEN Head(x) < Head(y)
  ELSE unitsLess(Tail(x), Tail(y))

\* the default comparator of Array.prototype.sort: undefined sorts last, the
\* rest by their string conversions
sortsBefore(x, y) ==
  IF x = Undefined THEN FALSE
  ELSE IF y = Undefined THEN TRUE
  ELSE unitsLess(codeUnits(JsString(x)), codeUnits(JsString(y)))

RECURSIVE insertSorted(_, _)
insertSorted(x, sorted) ==
  IF sorted = <<>> THEN <<x>>
  ELSE IF sortsBefore(x, Head(sorted)) THEN <<x>> \o sorted
  ELSE <<Head(sorted)>> \o insertSorted(x, Tail(sorted))

RECURSIVE sortItems(_)
sortItems(items) ==
  IF items = <<>> THEN <<>>
  ELSE insertSorted(items[Len(items)], sortItems(SubSeq(items, 1, Len(items) - 1)))

\* array.sort() (on a fresh copy here)
sort(array) == Arr(sortItems(array.items))

\* array.join(separator): undefined and null elements join as ""
RECURSIVE joinItems(_, _)
joinItems(items, separator) ==
  IF items = <<>> THEN ""
  ELSE LET head == IF IsNullish(Head(items)) THEN "" ELSE JsString(Head(items))
       IN IF Len(items) = 1 THEN head
          ELSE head \o separator \o joinItems(Tail(items), separator)
join(array, separator) == joinItems(array.items, separator)

\* [...value]: an array is copied; undefined and null are not iterable
IsIterable(v) == v.t = "array"

\* ---------------------------------------------------------- the environment
\* every ordering of every subset of the requested actions
Orderings(items) ==
  {q \in SeqsUpTo({items[i] : i \in 1..Len(items)}, Len(items)) :
     \A i, j \in 1..Len(q) : i # j => q[i] # q[j]}

\* what this._checkPrivileges(actions) can resolve with: { result, username,
\* missing? }, missing being the subset of the actions that are missing
CheckPrivilegesResponses(acts) ==
  {[result |-> r, username |-> u, missing |-> Undefined] :
     r \in {CHECK_PRIVILEGES_RESULT.AUTHORIZED, CHECK_PRIVILEGES_RESULT.LEGACY,
            CHECK_PRIVILEGES_RESULT.UNAUTHORIZED, "unrecognized"},
     u \in Usernames}
  \cup
  {[result |-> CHECK_PRIVILEGES_RESULT.UNAUTHORIZED, username |-> u, missing |-> Arr(m)] :
     u \in Usernames, m \in Orderings(acts.items)}

\* what this._checkPrivileges(actions) can throw: errors with and without the
\* nested body.error.reason
CheckPrivilegesErrors ==
  {Obj([body |-> Obj([error |-> Obj([reason |-> Str("r")])])]),
   Obj([body |-> Obj([error |-> Obj(NoFields)])]),
   Obj([body |-> Obj([error |-> Null])]),
   Obj([body |-> Obj(NoFields)]),
   Obj([body |-> Null]),
   Obj(NoFields)}

AuditSinkError == [t |-> "error", kind |-> "AuditSink", message |-> "audit"]

Return(v) == [kind |-> "return", value |-> v]
Throw(e) == [kind |-> "throw", value |-> e]

\* parameter = defaultValue in a parameter list
Default(v, defaultValue) == IF v = Undefined THEN defaultValue ELSE v

\* ------------------------------------------------------------------ _execute
\* mutant of _execute: the internal repository is invoked before the check
_executeDelegateFirst(c, typeOrTypes, act, bundle, f) ==
  LET ts == IF typeOrTypes.t = "array" THEN typeOrTypes ELSE Arr(<<typeOrTypes>>)
      as == mapActions(ts, act)
  IN /\ pc' = [pc EXCEPT ![c] = "checking"]
     /\ action' = [action EXCEPT ![c] = act]
     /\ args' = [args EXCEPT ![c] = bundle]
     /\ fn' = [fn EXCEPT ![c] = f]
     /\ types' = [types EXCEPT ![c] = ts]
     /\ actions' = [actions EXCEPT ![c] = as]
     /\ repoCalls' = [repoCalls EXCEPT ![c] = Append(@, Invoke(f, "internalRepository"))]
     /\ trace' = [trace EXCEPT ![c] = @ \o <<"internalRepository", "checkPrivileges">>]
     /\ UNCHANGED <<checked, auditLog, delegated, outcome>>

\* mutant of _execute: no Array.isArray test, the type argument is always wrapped
_executeAlwaysWraps(c, typeOrTypes, act, bundle, f) ==
  LET ts == Arr(<<typeOrTypes>>)
      as == mapActions(ts, act)
  IN /\ pc' = [pc EXCEPT ![c] = "checking"]
     /\ action' = [action EXCEPT ![c] = act]
     /\ args' = [args EXCEPT ![c] = bundle]
     /\ fn' = [fn EXCEPT ![c] = f]
     /\ types' = [types EXCEPT ![c] = ts]
     /\ actions' = [actions EXCEPT ![c] = as]
     /\ trace' = [trace EXCEPT ![c] = Append(@, "checkPrivileges")]
     /\ UNCHANGED <<checked, auditLog, repoCalls, delegated, outcome>>

\* lines 103-106, up to the await: derive types and actions, call the checker
_execute(c, typeOrTypes, act, bundle, f) ==
  LET ts == IF typeOrTypes.t = "array" THEN typeOrTypes ELSE Arr(<<typeOrTypes>>)
      as == mapActions(ts, act)
  IN /\ pc' = [pc EXCEPT ![c] = "checking"]
     /\ action' = [action EXCEPT ![c] = act]
     /\ args' = [args EXCEPT ![c] = bundle]
     /\ fn' = [fn EXCEPT ![c] = f]
     /\ types' = [types EXCEPT ![c] = ts]
     /\ actions' = [actions EXCEPT ![c] = as]
     /\ trace' = [trace EXCEPT ![c] = Append(@, "checkPrivileges")]
     /\ UNCHANGED <<checked, auditLog, repoCalls, delegated, outcome>>

\* a caller starts a call once its previous one has been returned to it; callers
\* await one call before making the next
CanCall(c) == \A d \in Calls : pc[d] = "idle"

\* ------------------------------------------------------------ public methods
Attributes == {Undefined, Obj([title |-> Str("t")])}
Options == {Undefined, Obj(NoFields)}
FindTypes == Types \cup {Arr(q) : q \in SeqsUpTo(Types, 2) \ {<<>>}}
FindOptions == Options \cup {Obj([type |-> type]) : type \in FindTypes}

create(c) ==
  /\ CanCall(c)
  /\ \E type \in Types, attributes0 \in Attributes, options0 \in Options :
       LET attributes == Default(attributes0, Obj(NoFields))
           options == Default(options0, Obj(NoFields))
       IN _execute(c, type, "create",
                   Obj([type |-> type, attributes |-> attributes, options |-> options]),
                   [method |-> "create", arguments |-> <<type, attributes, options>>])

bulkCreate(c) ==
  /\ CanCall(c)
  /\ \E objects \in ObjectLists, options0 \in Options :
       LET options == Default(options0, Obj(NoFields))
           ts == uniq(mapTypes(objects))
       IN _execute(c, ts, "bulk_create",
                   Obj([objects |-> objects, options |-> options]),
                   [method |-> "bulkCreate", arguments |-> <<objects, options>>])

delete(c) ==
  /\ CanCall(c)
  /\ \E type \in Types, id \in Ids, options0 \in Options :
       LET options == Default(options0, Obj(NoFields))
       IN _execute(c, type, "delete",
                   Obj([type |-> type, id |-> id, options |-> options]),
                   [method |-> "delete", arguments |-> <<type, id, options>>])

find(c) ==
  /\ CanCall(c)
  /\ \E options0 \in FindOptions :
       LET options == Default(options0, Obj(NoFields))
       IN _execute(c, Prop(options, "type"), "find",
                   Obj([options |-> options]),
                   [method |-> "find", arguments |-> <<options>>])

bulkGet(c) ==
  /\ CanCall(c)
  /\ \E objects0 \in ObjectLists \cup {Undefined}, options0 \in Options :
       LET objects == Default(objects0, Arr(<<>>))
           options == Default(options0, Obj(NoFields))
           ts == uniq(mapTypes(objects))
       IN _execute(c, ts, "bulk_get",
                   Obj([objects |-> objects, options |-> options]),
                   [method |-> "bulkGet", arguments |-> <<objects, options>>])

get(c) ==
  /\ CanCall(c)
  /\ \E type \in Types, id \in Ids, options0 \in Options :
       LET options == Default(options0, Obj(NoFields))
       IN _execute(c, type, "get",
                   Obj([type |-> type, id |-> id, options |-> options]),
                   [method |-> "get", arguments |-> <<type, id, options>>])

update(c) ==
  /\ CanCall(c)
  /\ \E type \in Types, id \in Ids, attributes \in Attributes \ {Undefined},
        options0 \in Options :
       LET options == Default(options0, Obj(NoFields))
       IN _execute(c, type, "update",
                   Obj([type |-> type, id |-> id, attributes |-> attributes,
                        options |-> options]),
                   [method |-> "update", arguments |-> <<type, id, attributes, options>>])

\* ----------------------------------------------- _checkSavedObjectPrivileges
\* lines 97-100: the catch block, given the error the checker threw
catchCheckPrivileges(error) ==
  LET bodyError == lodashGet(error, <<"body", "error">>, Obj(NoFields))
  IN IF IsNullish(bodyError)
       THEN Throw(TypeError("Cannot destructure property 'reason'"))
       ELSE Throw(decorateGeneralError(error, Prop(bodyError, "reason")))

\* lines 94-101: the checker settles; a rejection is caught and rethrown, and
\* the rethrown error rejects _execute and the public method with it
_checkSavedObjectPrivileges(c) ==
  /\ pc[c] = "checking"
  /\ \/ \E response \in CheckPrivilegesResponses(actions[c]) :
          /\ checked' = [checked EXCEPT ![c] = Return(response)]
          /\ pc' = [pc EXCEPT ![c] = "checked"]
          /\ UNCHANGED outcome
     \/ \E error \in CheckPrivilegesErrors :
          /\ checked' = [checked EXCEPT ![c] = Throw(error)]
          /\ outcome' = [outcome EXCEPT ![c] = catchCheckPrivileges(error)]
          /\ pc' = [pc EXCEPT ![c] = "done"]
  /\ UNCHANGED <<action, args, fn, types, actions, auditLog, repoCalls, trace, delegated>>

\* ------------------------------------------------------ _execute, the switch
\* What one branch of the switch does before the next await or throw: the audit
\* calls it makes, the repository methods it invokes, both in order in `steps`,
\* and what it throws (NoOutcome when it goes on to await the repository).
Effect(audit, invoked, steps, thrown) ==
  [audit |-> audit, invoked |-> invoked, steps |-> steps, outcome |-> thrown]

\* mutant of caseAuthorized: the repository is invoked before the audit is written
caseAuthorizedLateAudit(username, act, ts, bundle, f, sinkThrows) ==
  LET event == [method |-> "savedObjectsAuthorizationSuccess", username |-> username,
                action |-> act, types |-> ts, args |-> bundle]
  IN Effect(<<event>>, <<Invoke(f, "internalRepository")>>,
            <<"internalRepository", "savedObjectsAuthorizationSuccess">>
              \o (IF sinkThrows THEN <<"auditLoggerThrew">> ELSE <<>>),
            IF sinkThrows THEN Throw(AuditSinkError) ELSE NoOutcome)

\* mutant of caseAuthorized: no return, the case falls through into LEGACY
caseAuthorizedFallsThrough(username, act, ts, bundle, f, sinkThrows) ==
  LET event == [method |-> "savedObjectsAuthorizationSuccess", username |-> username,
                action |-> act, types |-> ts, args |-> bundle]
  IN IF sinkThrows
       THEN Effect(<<event>>, <<>>,
                   <<"savedObjectsAuthorizationSuccess", "auditLoggerThrew">>,
                   Throw(AuditSinkError))
       ELSE Effect(<<event>>,
                   <<Invoke(f, "internalRepository"), Invoke(f, "callWithRequestRepository")>>,
                   <<"savedObjectsAuthorizationSuccess", "internalRepository",
                     "callWithRequestRepository">>,
                   NoOutcome)

\* mutant of caseAuthorized: an error of the audit logger is caught and dropped
caseAuthorizedSwallowsAuditError(username, act, ts, bundle, f, sinkThrows) ==
  LET event == [method |-> "savedObjectsAuthorizationSuccess", username |-> username,
                action |-> act, types |-> ts, args |-> bundle]
  IN Effect(<<event>>, <<Invoke(f, "internalRepository")>>,
            <<"savedObjectsAuthorizationSuccess">>
              \o (IF sinkThrows THEN <<"auditLoggerThrew">> ELSE <<>>)
              \o <<"internalRepository">>,
            NoOutcome)

\* lines 109-111
caseAuthorized(username, act, ts, bundle, f, sinkThrows) ==
  LET event == [method |-> "savedObjectsAuthorizationSuccess", username |-> username,
                action |-> act, types |-> ts, args |-> bundle]
  IN IF sinkThrows
       THEN Effect(<<event>>, <<>>,
                   <<"savedObjectsAuthorizationSuccess", "auditLoggerThrew">>,
                   Throw(AuditSinkError))
       ELSE Effect(<<event>>, <<Invoke(f, "internalRepository")>>,
                   <<"savedObjectsAuthorizationSuccess", "internalRepository">>,
                   NoOutcome)

\* mutant of caseLegacy: LEGACY is routed to the internal repository
caseLegacyInternal(f) ==
  Effect(<<>>, <<Invoke(f, "internalRepository")>>, <<"internalRepository">>, NoOutcome)

\* mutant of caseLegacy: LEGACY writes an audit-success event
caseLegacyAudited(f) ==
  Effect(<<[method |-> "savedObjectsAuthorizationSuccess"]>>,
         <<Invoke(f, "callWithRequestRepository")>>,
         <<"savedObjectsAuthorizationSuccess", "callWithRequestRepository">>, NoOutcome)

\* lines 112-113
caseLegacy(f) ==
  Effect(<<>>, <<Invoke(f, "callWithRequestRepository")>>,
         <<"callWithRequestRepository">>, NoOutcome)

\* mutant of spreadSort: the array itself is sorted, not a copy of it
spreadSortInPlace(array) == [sorted |-> sort(array), array |-> sort(array)]

\* line 116, `[...array].sort()`: the sorted copy, and the array as it is left
spreadSort(array) == [sorted |-> sort(array), array |-> array]

\* line 116: the message of the Forbidden error
forbiddenMessage(act, ts, missing) ==
  "Unable to " \o act \o " " \o join(spreadSort(ts).sorted, ",")
    \o ", missing " \o join(spreadSort(missing).sorted, ",")

\* mutant of caseUnauthorized: the Forbidden error is thrown without the audit
caseUnauthorizedUnaudited(username, act, ts, missing, bundle, sinkThrows) ==
  Effect(<<>>, <<>>, <<>>,
         Throw(IF ~IsIterable(missing) THEN TypeError("missing is not iterable")
               ELSE decorateForbiddenError(Error(forbiddenMessage(act, ts, missing)))))

\* lines 114-117
caseUnauthorized(username, act, ts, missing, bundle, sinkThrows) ==
  LET event == [method |-> "savedObjectsAuthorizationFailure", username |-> username,
                action |-> act, types |-> ts, missing |-> missing, args |-> bundle]
      thrown == IF sinkThrows THEN AuditSinkError
                ELSE IF ~IsIterable(missing) THEN TypeError("missing is not iterable")
                ELSE decorateForbiddenError(Error(forbiddenMessage(act, ts, missing)))
      \* the two arrays as line 116 leaves them; it is not reached when the
      \* audit logger throws, and throws at [...missing] after types is done
      left == [types |-> IF sinkThrows THEN ts ELSE spreadSort(ts).array,
               missing |-> IF sinkThrows \/ ~IsIterable(missing) THEN missing
                           ELSE spreadSort(missing).array]
  IN Effect(<<event>>, <<>>,
            <<"savedObjectsAuthorizationFailure">>
              \o (IF sinkThrows THEN <<"auditLoggerThrew">> ELSE <<>>),
            Throw(thrown)) @@ [left |-> left]

\* lines 118-119
caseDefault ==
  Effect(<<>>, <<>>, <<>>, Throw(Error("Unexpected result from hasPrivileges")))

\* mutant of switchResult: no default branch, an unrecognized result is served
\* as LEGACY
switchResultDefaultLegacy(response, act, ts, bundle, f, sinkThrows) ==
  LET result == response.result
      username == response.username
      missing == response.missing
  IN CASE result = CHECK_PRIVILEGES_RESULT.AUTHORIZED ->
            caseAuthorized(username, act, ts, bundle, f, sinkThrows)
       [] result = CHECK_PRIVILEGES_RESULT.UNAUTHORIZED ->
            caseUnauthorized(username, act, ts, missing, bundle, sinkThrows)
       [] OTHER -> caseLegacy(f)

\* lines 106-120: destructure the checker's response and branch on result
switchResult(response, act, ts, bundle, f, sinkThrows) ==
  LET result == response.result
      username == response.username
      missing == response.missing
  IN CASE result = CHECK_PRIVILEGES_RESULT.AUTHORIZED ->
            caseAuthorized(username, act, ts, bundle, f, sinkThrows)
       [] result = CHECK_PRIVILEGES_RESULT.LEGACY -> caseLegacy(f)
       [] result = CHECK_PRIVILEGES_RESULT.UNAUTHORIZED ->
            caseUnauthorized(username, act, ts, missing, bundle, sinkThrows)
       [] OTHER -> caseDefault

\* mutant of _executeSwitch: the checker's response is kept in a field of the
\* client, shared by the calls in flight, instead of a local of _execute
_executeSwitchSharedResponse(c) ==
  /\ pc[c] = "checked"
  /\ \E d \in Calls, sinkThrows \in BOOLEAN :
       /\ checked[d].kind = "return"
       /\ \E e \in {switchResult(checked[d].value, action[c], types[c], args[c], fn[c],
                                 sinkThrows)} :
            /\ auditLog' = [auditLog EXCEPT ![c] = @ \o e.audit]
            /\ repoCalls' = [repoCalls EXCEPT ![c] = @ \o e.invoked]
            /\ trace' = [trace EXCEPT ![c] = @ \o e.steps]
            /\ outcome' = [outcome EXCEPT ![c] = e.outcome]
            /\ pc' = [pc EXCEPT ![c] = IF e.outcome = NoOutcome THEN "delegating" ELSE "done"]
  /\ UNCHANGED <<action, args, fn, types, actions, checked, delegated>>

\* lines 106-120, from the await of the checker to the next await or throw;
\* the audit logger may throw
_executeSwitch(c) ==
  /\ pc[c] = "checked"
  /\ \E sinkThrows \in BOOLEAN :
       \E e \in {switchResult(checked[c].value, action[c], types[c], args[c], fn[c],
                              sinkThrows)} :
          /\ auditLog'= [auditLog EXCEPT ![c] = @ \o e.audit]
          /\ repoCalls' = [repoCalls EXCEPT ![c] = @ \o e.invoked]
          /\ trace' = [trace EXCEPT ![c] = @ \o e.steps]
          /\ outcome' = [outcome EXCEPT ![c] = e.outcome]
          /\ pc' = [pc EXCEPT ![c] = IF e.outcome = NoOutcome THEN "delegating" ELSE "done"]
          \* `types` and `missing` are arrays shared with the caller and the
          \* checker: what the branch did to them stays
          /\ types' = [types EXCEPT ![c] = IF "left" \in DOMAIN e THEN e.left.types ELSE @]
          /\ checked' = [checked EXCEPT ![c].value.missing =
                           IF "left" \in DOMAIN e THEN e.left.missing ELSE @]
  /\ UNCHANGED <<action, args, fn, actions, delegated>>

\* mutant of returnAwait: a repository error is wrapped before it is rethrown
returnAwaitWrapped(settled) ==
  IF settled.kind = "throw"
    THEN Throw(decorateGeneralError(settled.value, Undefined))
    ELSE settled

\* lines 111 and 113, `return await fn(repository)`: what the call settles with,
\* given what the repository method settled with
returnAwait(settled) == settled

\* mutant of _executeReturn: a repository method that threw is invoked once more
_executeReturnRetries(c) ==
  /\ pc[c] = "delegating"
  /\ \E settled \in RepositoryOutcomes :
       IF settled.kind = "throw" /\ Len(repoCalls[c]) < 2
         THEN /\ repoCalls' = [repoCalls EXCEPT ![c] = Append(@, @[1])]
              /\ trace' = [trace EXCEPT ![c] = Append(@, repoCalls[c][1].repository)]
              /\ UNCHANGED <<pc, delegated, outcome>>
         ELSE /\ delegated' = [delegated EXCEPT ![c] = settled]
              /\ outcome' = [outcome EXCEPT ![c] = returnAwait(settled)]
              /\ pc' = [pc EXCEPT ![c] = "done"]
              /\ UNCHANGED <<repoCalls, trace>>
  /\ UNCHANGED <<action, args, fn, types, actions, checked, auditLog>>

\* lines 111 and 113: the repository method settles and _execute, and with it
\* the public method, settles
_executeReturn(c) ==
  /\ pc[c] = "delegating"
  /\ \E settled \in RepositoryOutcomes :
       /\ delegated' = [delegated EXCEPT ![c] = settled]
       /\ outcome' = [outcome EXCEPT ![c] = returnAwait(settled)]
  /\ pc' = [pc EXCEPT ![c] = "done"]
  /\ UNCHANGED <<action, args, fn, types, actions, checked, auditLog, repoCalls, trace>>

\* the caller takes the settled call; nothing of it is retained
callSettled(c) ==
  /\ pc[c] = "done"
  /\ pc' = [pc EXCEPT ![c] = "idle"]
  /\ action' = [action EXCEPT ![c] = "none"]
  /\ args' = [args EXCEPT ![c] = Undefined]
  /\ fn' = [fn EXCEPT ![c] = NoFn]
  /\ types' = [types EXCEPT ![c] = Undefined]
  /\ actions' = [actions EXCEPT ![c] = Undefined]
  /\ checked' = [checked EXCEPT ![c] = NoOutcome]
  /\ auditLog' = [auditLog EXCEPT ![c] = <<>>]
  /\ repoCalls' = [repoCalls EXCEPT ![c] = <<>>]
  /\ trace' = [trace EXCEPT ![c] = <<>>]
  /\ delegated' = [delegated EXCEPT ![c] = NoOutcome]
  /\ outcome' = [outcome EXCEPT ![c] = NoOutcome]

Next ==
  \E c \in Calls :
    \/ create(c)
    \/ bulkCreate(c)
    \/ delete(c)
    \/ find(c)
    \/ bulkGet(c)
    \/ get(c)
    \/ update(c)
    \/ _checkSavedObjectPrivileges(c)
    \/ _executeSwitch(c)
    \/ _executeReturn(c)
    \/ callSettled(c)

Spec == Init /\ [][Next]_vars

\* The caller of bulkCreate or bulkGet keeps its `objects` array: the bundle
\* of line 41 (70) and the closure of line 42 (71) hold that same array, not a
\* copy. While the check is pending the caller runs, and may push an object.
callerMutatesObjects(c) ==
  /\ pc[c] = "checking"
  /\ action[c] \in {"bulk_create", "bulk_get"}
  /\ Len(Prop(args[c], "objects").items) < MaxObjects
  /\ \E o \in SavedObjects :
       LET objects == Arr(Append(Prop(args[c], "objects").items, o))
       IN /\ args' = [args EXCEPT ![c].f.objects = objects]
          /\ fn' = [fn EXCEPT ![c].arguments[1] = objects]
  /\ UNCHANGED <<pc, action, types, actions, checked, auditLog, repoCalls, trace,
                 delegated, outcome>>

NextCallerMutates ==
  \/ Next
  \/ \E c \in Calls : callerMutatesObjects(c)

\* the calls, with callers that change their own arrays between the steps
SpecCallerMutates == Init /\ [][NextCallerMutates]_vars

\* get(type, id) by a caller that does not wait for the calls already in
\* flight: the client has no lock and no queue, a call starts whenever it is made
getWhileOthersPending(c) ==
  /\ pc[c] = "idle"
  /\ \E type \in Types, id \in Ids :
       LET options == Default(Undefined, Obj(NoFields))
       IN _execute(c, type, "get",
                   Obj([type |-> type, id |-> id, options |-> options]),
                   [method |-> "get", arguments |-> <<type, id, options>>])

NextOverlap ==
  \E c \in Calls :
    \/ getWhileOthersPending(c)
    \/ _checkSavedObjectPrivileges(c)
    \/ _executeSwitch(c)
    \/ _executeReturn(c)
    \/ callSettled(c)

\* the calls of callers that do not wait for one another: their steps
\* interleave at the awaits
SpecOverlap == Init /\ [][NextOverlap]_vars

\* The calls under the premise that what they await settles: the checker's
\* promise (line 96) and the promise of the repository method (lines 111, 113)
\* each settle, and the continuation of an await whose promise has settled is
\* run by the event loop.
SpecFair ==
  /\ Spec
  /\ \A c \in Calls :
       /\ WF_vars(_checkSavedObjectPrivileges(c))
       /\ WF_vars(_executeSwitch(c))
       /\ WF_vars(_executeReturn(c))

\* ====================================================================== claims
Count(q, name) == Cardinality({i \in 1..Len(q) : q[i] = name})
AuditCount(c, method) ==
  Cardinality({i \in 1..Len(auditLog[c]) : auditLog[c][i].method = method})
RepositoryCount(c, repository) ==
  Cardinality({i \in 1..Len(repoCalls[c]) : repoCalls[c][i].repository = repository})
\* the checker has resolved for call c with this result
Resolved(c, result) ==
  checked[c].kind = "return" /\ checked[c].value.result = result
Settled(c) == pc[c] = "done"
SinkThrew(c) == outcome[c] = Throw(AuditSinkError)
Before(q, first, second) ==
  \A j \in 1..Len(q) : q[j] = second => \E i \in 1..(j - 1) : q[i] = first

\* C1: when the checker returns UNAUTHORIZED, neither the internal nor the
\* callWithRequest repository is ever invoked during the call, and by the time
\* the call has settled exactly one audit-failure event, and no other audit
\* event, has been recorded.
C1_UnauthorizedNeverDelegates ==
  \A c \in Calls :
    Resolved(c, CHECK_PRIVILEGES_RESULT.UNAUTHORIZED) =>
      /\ repoCalls[c] = <<>>
      /\ Count(trace[c], "internalRepository") = 0
      /\ Count(trace[c], "callWithRequestRepository") = 0
      /\ delegated[c] = NoOutcome
      /\ pc[c] # "delegating"
      /\ Settled(c) =>
           /\ AuditCount(c, "savedObjectsAuthorizationFailure") = 1
           /\ Len(auditLog[c]) = 1

\* a settled bulk call over two types that the checker found UNAUTHORIZED
C1_Witness ==
  \E c \in Calls :
    /\ Settled(c)
    /\ Resolved(c, CHECK_PRIVILEGES_RESULT.UNAUTHORIZED)
    /\ action[c] = "bulk_create"
    /\ Len(types[c].items) = 2
    /\ Len(auditLog[c]) = 1

\* C2: when the checker returns AUTHORIZED, exactly one audit-success event is
\* recorded, it is recorded before the internal repository is invoked, the
\* repository invoked is the internal one (invoked once, with the call's own
\* method and arguments, whenever the audit logger returned normally), and the
\* callWithRequest repository is never invoked.
C2_AuthorizedAuditsThenDelegates ==
  \A c \in Calls :
    Resolved(c, CHECK_PRIVILEGES_RESULT.AUTHORIZED) =>
      /\ AuditCount(c, "savedObjectsAuthorizationSuccess") <= 1
      /\ AuditCount(c, "savedObjectsAuthorizationFailure") = 0
      /\ RepositoryCount(c, "callWithRequestRepository") = 0
      /\ Count(trace[c], "callWithRequestRepository") = 0
      /\ Before(trace[c], "savedObjectsAuthorizationSuccess", "internalRepository")
      /\ pc[c] \in {"delegating", "done"} =>
           /\ AuditCount(c, "savedObjectsAuthorizationSuccess") = 1
           /\ ~SinkThrew(c) =>
                /\ repoCalls[c] = <<Invoke(fn[c], "internalRepository")>>
                /\ Count(trace[c], "internalRepository") = 1

\* an AUTHORIZED call waiting for the internal repository, its audit written
C2_Witness ==
  \E c \in Calls :
    /\ pc[c] = "delegating"
    /\ Resolved(c, CHECK_PRIVILEGES_RESULT.AUTHORIZED)
    /\ trace[c] = <<"checkPrivileges", "savedObjectsAuthorizationSuccess",
                    "internalRepository">>
    /\ repoCalls[c][1].method = "update"

\* C3: when the checker returns LEGACY, the callWithRequest repository is
\* invoked (once, with the call's own method and arguments), the internal
\* repository is never invoked, and no audit event is recorded.
C3_LegacyDelegatesUnaudited ==
  \A c \in Calls :
    Resolved(c, CHECK_PRIVILEGES_RESULT.LEGACY) =>
      /\ auditLog[c] = <<>>
      /\ Count(trace[c], "savedObjectsAuthorizationSuccess") = 0
      /\ Count(trace[c], "savedObjectsAuthorizationFailure") = 0
      /\ RepositoryCount(c, "internalRepository") = 0
      /\ Count(trace[c], "internalRepository") = 0
      /\ pc[c] \in {"delegating", "done"} =>
           /\ repoCalls[c] = <<Invoke(fn[c], "callWithRequestRepository")>>
           /\ Count(trace[c], "callWithRequestRepository") = 1

\* a LEGACY find that has settled through the callWithRequest repository
C3_Witness ==
  \E c \in Calls :
    /\ Settled(c)
    /\ Resolved(c, CHECK_PRIVILEGES_RESULT.LEGACY)
    /\ action[c] = "find"
    /\ repoCalls[c] = <<Invoke(fn[c], "callWithRequestRepository")>>
    /\ delegated[c] # NoOutcome

\* C4: in every call the checker is invoked exactly once and first, the audit
\* logger at most once, and no repository method is invoked while the check is
\* pending or when the checker gave no response.
C4_CheckOnceBeforeDelegate ==
  \A c \in Calls :
    /\ pc[c] # "idle" =>
         /\ Count(trace[c], "checkPrivileges") = 1
         /\ trace[c][1] = "checkPrivileges"
    /\ pc[c] = "idle" => trace[c] = <<>>
    /\ Len(auditLog[c]) <= 1
    /\ Count(trace[c], "savedObjectsAuthorizationSuccess")
         + Count(trace[c], "savedObjectsAuthorizationFailure") = Len(auditLog[c])
    /\ pc[c] = "checking" => repoCalls[c] = <<>> /\ auditLog[c] = <<>>
    /\ repoCalls[c] # <<>> => checked[c].kind = "return"
    /\ Before(trace[c], "checkPrivileges", "internalRepository")
    /\ Before(trace[c], "checkPrivileges", "callWithRequestRepository")

\* a call whose check is pending, and nothing else done yet
C4_Witness ==
  \E c \in Calls :
    /\ pc[c] = "checking"
    /\ trace[c] = <<"checkPrivileges">>
    /\ Len(actions[c].items) = 2

\* C5, as claimed: every call, whatever the checker's outcome, has produced
\* exactly one audit event by the time it completes.
C5_ExactlyOneAuditEvent ==
  \A c \in Calls : Settled(c) => Len(auditLog[c]) = 1

\* C5, amended: every call produces at most one audit event; a completed call
\* has produced exactly one when the checker returned AUTHORIZED (a success
\* event) or UNAUTHORIZED (a failure event), and none when the checker returned
\* LEGACY or an unrecognized result or failed.
C5_AuditEventPerOutcome ==
  \A c \in Calls :
    /\ Len(auditLog[c]) <= 1
    /\ Settled(c) =>
         /\ Resolved(c, CHECK_PRIVILEGES_RESULT.AUTHORIZED) =>
              /\ Len(auditLog[c]) = 1
              /\ auditLog[c][1].method = "savedObjectsAuthorizationSuccess"
         /\ Resolved(c, CHECK_PRIVILEGES_RESULT.UNAUTHORIZED) =>
              /\ Len(auditLog[c]) = 1
              /\ auditLog[c][1].method = "savedObjectsAuthorizationFailure"
         /\ Resolved(c, CHECK_PRIVILEGES_RESULT.LEGACY) => auditLog[c] = <<>>
         /\ Resolved(c, "unrecognized") => auditLog[c] = <<>>
         /\ checked[c].kind = "throw" => auditLog[c] = <<>>

\* a call that completed through the callWithRequest repository, unaudited
C5_Witness ==
  \E c \in Calls :
    /\ Settled(c)
    /\ Resolved(c, CHECK_PRIVILEGES_RESULT.LEGACY)
    /\ outcome[c].kind = "return"
    /\ auditLog[c] = <<>>
    /\ Len(repoCalls[c]) = 1

\* C6: whenever the checker returns UNAUTHORIZED, with or without the optional
\* missing field, the call fails with a Forbidden error, raised after the
\* audit-failure event has been issued (calls whose audit logger threw are left
\* aside: they fail with the logger's error).
C6_UnauthorizedIsForbidden ==
  \A c \in Calls :
    (Settled(c) /\ Resolved(c, CHECK_PRIVILEGES_RESULT.UNAUTHORIZED) /\ ~SinkThrew(c)) =>
      /\ outcome[c].kind = "throw"
      /\ outcome[c].value.kind = "Forbidden"
      /\ AuditCount(c, "savedObjectsAuthorizationFailure") = 1

\* the reason the claim expects of the decorated error: body.error.reason when
\* that field exists, undefined otherwise
ExpectedReason(error) == Prop(Prop(Prop(error, "body"), "error"), "reason")

\* C7: whenever the checker fails, whatever the shape of the error it threw,
\* the call fails with a Decorated-General error that wraps that error and
\* carries body.error.reason when present and undefined otherwise; no
\* repository is invoked and no audit event is recorded.
C7_CheckerFailureIsDecorated ==
  \A c \in Calls :
    (Settled(c) /\ checked[c].kind = "throw") =>
      /\ outcome[c] = Throw(decorateGeneralError(checked[c].value,
                                                 ExpectedReason(checked[c].value)))
      /\ repoCalls[c] = <<>>
      /\ auditLog[c] = <<>>

\* C8: when the checker returns a result that is none of AUTHORIZED, LEGACY and
\* UNAUTHORIZED, the call fails with the Unexpected-Result error and neither
\* repository is invoked.
C8_UnexpectedResult ==
  \A c \in Calls :
    (checked[c].kind = "return"
       /\ checked[c].value.result \notin
            {CHECK_PRIVILEGES_RESULT.AUTHORIZED, CHECK_PRIVILEGES_RESULT.LEGACY,
             CHECK_PRIVILEGES_RESULT.UNAUTHORIZED}) =>
      /\ repoCalls[c] = <<>>
      /\ delegated[c] = NoOutcome
      /\ pc[c] # "delegating"
      /\ Count(trace[c], "internalRepository") = 0
      /\ Count(trace[c], "callWithRequestRepository") = 0
      /\ Settled(c) => outcome[c] = Throw(Error("Unexpected result from hasPrivileges"))

\* a call that has failed on an unrecognized result
C8_Witness ==
  \E c \in Calls :
    /\ Settled(c)
    /\ Resolved(c, "unrecognized")
    /\ outcome[c].kind = "throw"
    /\ action[c] = "get"

\* the types occurring in the objects of a bulk call
InputTypes(c) ==
  LET objects == Prop(args[c], "objects").items
  IN {TypeOf(objects[i]) : i \in 1..Len(objects)}

\* C9: for bulkCreate and bulkGet the actions sent to the checker are exactly
\* one action per distinct type of the input objects: every type of the input
\* has its action, no action appears twice, and every action is that of a type
\* of the input.
C9_OneActionPerDistinctType ==
  \A c \in Calls :
    action[c] \in {"bulk_create", "bulk_get"} =>
      LET sent == actions[c].items
      IN /\ \A type \in InputTypes(c) :
              \E i \in 1..Len(sent) : sent[i] = getSavedObjectAction(type, action[c])
         /\ \A i, j \in 1..Len(sent) : i # j => sent[i] # sent[j]
         /\ \A i \in 1..Len(sent) :
              \E type \in InputTypes(c) : sent[i] = getSavedObjectAction(type, action[c])
         /\ Len(sent) = Cardinality(InputTypes(c))

\* a bulk call whose objects repeat a type: three objects, two actions
C9_Witness ==
  \E c \in Calls :
    /\ action[c] = "bulk_get"
    /\ pc[c] = "checking"
    /\ Len(Prop(args[c], "objects").items) = 3
    /\ Len(actions[c].items) = 2
    /\ TypeOf(Prop(args[c], "objects").items[1]) = TypeOf(Prop(args[c], "objects").items[3])

\* C10: what the selected repository returns or throws is what the call
\* returns or throws, unchanged: the internal repository's outcome when the
\* checker returned AUTHORIZED, the callWithRequest repository's when LEGACY;
\* the repository is invoked once, never again after it failed.
C10_DelegateOutcomeUnchanged ==
  \A c \in Calls :
    /\ Len(repoCalls[c]) <= 1
    /\ (Settled(c) /\ repoCalls[c] # <<>>) =>
         /\ delegated[c] # NoOutcome
         /\ outcome[c] = delegated[c]
         /\ Resolved(c, CHECK_PRIVILEGES_RESULT.AUTHORIZED) =>
              repoCalls[c][1].repository = "internalRepository"
         /\ Resolved(c, CHECK_PRIVILEGES_RESULT.LEGACY) =>
              repoCalls[c][1].repository = "callWithRequestRepository"
    /\ (Settled(c) /\ repoCalls[c] = <<>>) => delegated[c] = NoOutcome

\* an AUTHORIZED call that failed with the error the internal repository threw
C10_Witness ==
  \E c \in Calls :
    /\ Settled(c)
    /\ Resolved(c, CHECK_PRIVILEGES_RESULT.AUTHORIZED)
    /\ delegated[c].kind = "throw"
    /\ outcome[c] = delegated[c]


\* the errors the client itself raises: Forbidden, Decorated-General and the
\* plain Error of an unexpected result
RaisedByClient(c) ==
  /\ outcome[c].kind = "throw"
  /\ outcome[c].value.t = "error"
  /\ outcome[c].value.kind \in {"Forbidden", "DecoratedGeneral", "Error"}

\* C11: over a whole call at most one repository method is invoked, at most
\* once, on one of the two repositories and never on both, and a call that ends
\* in an error raised by the client itself (Forbidden, Decorated-General,
\* Unexpected-Result) ends with no repository invocation at all.
C11_AtMostOneDelegation ==
  \A c \in Calls :
    /\ RepositoryCount(c, "internalRepository")
         + RepositoryCount(c, "callWithRequestRepository") <= 1
    /\ Len(repoCalls[c]) <= 1
    /\ Count(trace[c], "internalRepository")
         + Count(trace[c], "callWithRequestRepository") = Len(repoCalls[c])
    /\ (Settled(c) /\ RaisedByClient(c)) =>
         /\ repoCalls[c] = <<>>
         /\ delegated[c] = NoOutcome

\* a call rejected with Forbidden, no repository invoked
C11_Witness ==
  \E c \in Calls :
    /\ Settled(c)
    /\ RaisedByClient(c)
    /\ outcome[c].value.kind = "Forbidden"
    /\ repoCalls[c] = <<>>


\* the elements of a set in lexicographic order, each once
SortedOnce(S) ==
  CHOOSE q \in [1..Cardinality(S) -> S] :
    /\ \A x \in S : \E i \in 1..Len(q) : q[i] = x
    /\ \A i, j \in 1..Len(q) : i < j => ~sortsBefore(q[j], q[i])
ItemSet(array) == {array.items[i] : i \in 1..Len(array.items)}

\* C12: the Forbidden message is `Unable to <operation kind> <types>, missing
\* <actions>`, <types> being the call's distinct types and <actions> the
\* missing actions, each sorted lexicographically and comma-joined: the message
\* is a function of the operation kind, the set of types and the set of missing
\* actions, whatever the order of either list.
C12_ForbiddenMessage ==
  \A c \in Calls :
    (Settled(c) /\ outcome[c].kind = "throw" /\ outcome[c].value.t = "error"
       /\ outcome[c].value.kind = "Forbidden") =>
      outcome[c].value.message =
        "Unable to " \o action[c] \o " "
          \o joinItems(SortedOnce(ItemSet(types[c])), ",")
          \o ", missing "
          \o joinItems(SortedOnce(ItemSet(checked[c].value.missing)), ",")


\* the type filter of a find call: options.type
TypeFilter(c) == Prop(Prop(args[c], "options"), "type")

\* C14, as claimed: a find call always sends exactly one action to the checker,
\* whatever the type filter is, a list of types included.
C14_FindSendsOneAction ==
  \A c \in Calls :
    action[c] = "find" => Len(actions[c].items) = 1

\* C14, amended: a find call whose type filter is absent or a single type sends
\* exactly one action, that of (filter, 'find'), the filter being undefined when
\* absent; a find call whose type filter is a list of types sends one action
\* per element of the list, in the order of the list.
C14_FindActionsFollowFilter ==
  \A c \in Calls :
    action[c] = "find" =>
      LET filter == TypeFilter(c)
          sent == actions[c].items
      IN /\ pc[c] # "idle"
         /\ Count(trace[c], "checkPrivileges") = 1
         /\ filter.t # "array" => sent = <<getSavedObjectAction(filter, "find")>>
         /\ filter.t = "array" =>
              /\ Len(sent) = Len(filter.items)
              /\ \A i \in 1..Len(sent) :
                   sent[i] = getSavedObjectAction(filter.items[i], "find")

\* a find call without type filter, its one action that of the type undefined
C14_Witness ==
  \E c \in Calls :
    /\ action[c] = "find"
    /\ pc[c] = "checking"
    /\ TypeFilter(c) = Undefined
    /\ actions[c].items = <<getSavedObjectAction(Undefined, "find")>>


\* the index of the first object of a bulk call's input that has this type
FirstIndexOfType(c, type) ==
  LET objects == Prop(args[c], "objects").items
  IN CHOOSE i \in 1..Len(objects) :
       /\ TypeOf(objects[i]) = type
       /\ \A j \in 1..(i - 1) : TypeOf(objects[j]) # type

\* C16: for bulkCreate and bulkGet the sequence of actions sent to the checker
\* is determined by the input: its i-th action is that of the i-th distinct
\* type of the input objects in first-occurrence order, and that same sequence
\* of types is what the audit logger is given.
C16_ActionsInFirstOccurrenceOrder ==
  \A c \in Calls :
    action[c] \in {"bulk_create", "bulk_get"} =>
      LET ts == types[c].items
          sent == actions[c].items
      IN /\ Len(sent) = Len(ts)
         /\ \A i \in 1..Len(ts) :
              /\ ts[i] \in InputTypes(c)
              /\ sent[i] = getSavedObjectAction(ts[i], action[c])
         /\ \A i, j \in 1..Len(ts) :
              i < j => FirstIndexOfType(c, ts[i]) < FirstIndexOfType(c, ts[j])
         /\ Len(ts) = Cardinality(InputTypes(c))
         /\ \A k \in 1..Len(auditLog[c]) : auditLog[c][k].types = types[c]

\* an audited bulk call over objects of types b, a, b: actions for b, then a
C16_Witness ==
  \E c \in Calls :
    /\ action[c] = "bulk_create"
    /\ mapTypes(Prop(args[c], "objects")).items = <<Str("b"), Str("a"), Str("b")>>
    /\ actions[c].items = <<getSavedObjectAction(Str("b"), "bulk_create"),
                            getSavedObjectAction(Str("a"), "bulk_create")>>
    /\ Len(auditLog[c]) = 1
    /\ auditLog[c][1].types.items = <<Str("b"), Str("a")>>


\* the audit logger threw during call c
AuditLoggerThrew(c) == Count(trace[c], "auditLoggerThrew") > 0

\* C18: the internal repository is invoked only after the audit-success call
\* has returned normally; when the audit logger throws on an AUTHORIZED call,
\* the call fails with that error and neither repository is invoked.
C18_AuditSuccessGatesDelegation ==
  \A c \in Calls :
    /\ RepositoryCount(c, "internalRepository") > 0 =>
         /\ AuditCount(c, "savedObjectsAuthorizationSuccess") = 1
         /\ Before(trace[c], "savedObjectsAuthorizationSuccess", "internalRepository")
         /\ ~AuditLoggerThrew(c)
    /\ Count(trace[c], "internalRepository") = RepositoryCount(c, "internalRepository")
    /\ (Resolved(c, CHECK_PRIVILEGES_RESULT.AUTHORIZED) /\ AuditLoggerThrew(c)) =>
         /\ Settled(c)
         /\ outcome[c] = Throw(AuditSinkError)
         /\ repoCalls[c] = <<>>
         /\ delegated[c] = NoOutcome
         /\ Count(trace[c], "internalRepository") = 0
         /\ Count(trace[c], "callWithRequestRepository") = 0

\* an AUTHORIZED call that failed because the audit logger threw
C18_Witness ==
  \E c \in Calls :
    /\ Settled(c)
    /\ Resolved(c, CHECK_PRIVILEGES_RESULT.AUTHORIZED)
    /\ AuditLoggerThrew(c)
    /\ trace[c] = <<"checkPrivileges", "savedObjectsAuthorizationSuccess",
                    "auditLoggerThrew">>
    /\ outcome[c].kind = "throw"


\* C19: building the Forbidden message changes none of its inputs: after an
\* UNAUTHORIZED call the types array and the missing array hold what the
\* audit-failure call was handed, in the same order, and the types array still
\* is the one the actions were derived from (for find with a list filter, the
\* caller's own list).
C19_MessageLeavesInputsUnchanged ==
  \A c \in Calls :
    (Settled(c) /\ Resolved(c, CHECK_PRIVILEGES_RESULT.UNAUTHORIZED)) =>
      /\ Len(auditLog[c]) = 1
      /\ types[c] = auditLog[c][1].types
      /\ checked[c].value.missing = auditLog[c][1].missing
      /\ actions[c] = mapActions(types[c], action[c])
      /\ (action[c] = "find" /\ TypeFilter(c).t = "array") => types[c] = TypeFilter(c)
      /\ action[c] \in {"bulk_create", "bulk_get"} =>
           types[c] = uniq(mapTypes(Prop(args[c], "objects")))

\* a Forbidden find whose type list and missing actions were both out of order
C19_Witness ==
  \E c \in Calls :
    /\ Settled(c)
    /\ outcome[c].kind = "throw"
    /\ outcome[c].value.kind = "Forbidden"
    /\ action[c] = "find"
    /\ types[c].items = <<Str("b"), Str("a")>>
    /\ checked[c].value.missing.items =
         <<getSavedObjectAction(Str("b"), "find"), getSavedObjectAction(Str("a"), "find")>>
    /\ outcome[c].value.message
         = "Unable to find a,b, missing action:saved_objects/a/find,action:saved_objects/b/find"


\* no retry: after a failure of the checker nothing more is invoked, and after
\* a failure of the repository method neither it nor the checker is invoked again
NoRetry(c) ==
  /\ Count(trace[c], "checkPrivileges") <= 1
  /\ Len(repoCalls[c]) <= 1
  /\ checked[c].kind = "throw" =>
       /\ Settled(c)
       /\ trace[c] = <<"checkPrivileges">>
       /\ repoCalls[c] = <<>>
  /\ delegated[c].kind = "throw" =>
       /\ Settled(c)
       /\ outcome[c] = delegated[c]
       /\ Len(repoCalls[c]) = 1
       /\ Count(trace[c], "internalRepository")
            + Count(trace[c], "callWithRequestRepository") = 1

\* C15: provided the checker and the selected repository method each
\* eventually settle, every public call that was made eventually completes; and
\* the client retries nothing: the checker is never invoked a second time after
\* it failed, nor a repository method after it failed.
C15_CallsCompleteWithoutRetry ==
  /\ \A c \in Calls : (pc[c] # "idle") ~> Settled(c)
  /\ [](\A c \in Calls : NoRetry(c))

\* a call that completed with the error of the repository method, invoked once
C15_Witness ==
  \E c \in Calls :
    /\ Settled(c)
    /\ delegated[c].kind = "throw"
    /\ outcome[c] = delegated[c]
    /\ Len(repoCalls[c]) = 1
    /\ Count(trace[c], "checkPrivileges") = 1


\* C17: for bulkCreate and bulkGet on an AUTHORIZED check, every object the
\* internal repository receives has a type whose action was among the actions
\* submitted to the checker for that call, also when the caller changes its
\* objects array while the check is pending.
C17_DelegatedTypesWereChecked ==
  \A c \in Calls :
    (action[c] \in {"bulk_create", "bulk_get"}
       /\ Resolved(c, CHECK_PRIVILEGES_RESULT.AUTHORIZED)) =>
      \A k \in 1..Len(repoCalls[c]) :
        repoCalls[c][k].repository = "internalRepository" =>
          \A o \in ItemSet(repoCalls[c][k].arguments[1]) :
            getSavedObjectAction(TypeOf(o), action[c]) \in ItemSet(actions[c])


\* the repository the checker's own response for call c selects
SelectedRepository(c) ==
  IF Resolved(c, CHECK_PRIVILEGES_RESULT.AUTHORIZED) THEN "internalRepository"
  ELSE IF Resolved(c, CHECK_PRIVILEGES_RESULT.LEGACY) THEN "callWithRequestRepository"
  ELSE "none"

====
